---- MODULE Spec2Model ----
\* cpi-sync (src/src/main.rs): one run of `run`, from the parsed configuration
\* to the last file written.  The remote tenant, the process environment and
\* the configuration are fixed at the start of a behaviour; the HTTP outcome of
\* each request and what the operator types are chosen when they happen.
\* Console output and pause() change nothing the run reads and are left out.
EXTENDS Naturals, Sequences, FiniteSets, TLC

VARIABLES
    opts,                   \* Opts: [no_input]
    config,                 \* Config: credential variant, zip_extraction, filter_rules
    environ,                \* what env::var gives for the configured variable
    tenant,                 \* the remote tenant: catalog, artifacts, archives
    pc,                     \* position of run
    password,               \* Option<String>: None or [some |-> value]
    prompted,               \* rpassword::prompt_password_stdout was called
    authorization,          \* the Authorization header value, None before it is built
    requests,               \* the HTTP requests sent so far, in order
    api_package_set,        \* HashSet of the catalog's identifiers
    operating_package_set,  \* HashSet built by the rule fold
    rule_idx,               \* filter_rules consumed so far
    pending,                \* packages of package_list not yet processed
    package_id,             \* the package process_package is working on
    artifacts,              \* artifacts of that package not yet downloaded
    artifact,               \* the artifact whose archive is being extracted
    entries,                \* entries of that archive not yet extracted
    files,                  \* the paths of the files created so far
    result,                 \* "running", "ok", "err" or "panic"
    error                   \* the message of the Err returned, "" when none

vars == <<opts, config, environ, tenant, pc, password, prompted, authorization,
          requests, api_package_set, operating_package_set, rule_idx, pending,
          package_id, artifacts, artifact, entries, files, result, error>>

None == [none |-> TRUE]
Some(v) == [some |-> v]

\* ------------------------------------------------------------------ bounds

MaxRules == 2
MaxArtifacts == 2
MaxEntries == 2

\* ------------------------------------------------------- identifiers, regex

\* The package identifiers a tenant or a rule may name, with their characters.
PackageIds == {"PKG1", "PKG2", "Other"}

IdChars(id) ==
    CASE id = "PKG1" -> <<"P", "K", "G", "1">>
      [] id = "PKG2" -> <<"P", "K", "G", "2">>
      [] id = "Other" -> <<"O", "t", "h", "e", "r">>

\* A pattern is a sequence of tokens: "^" (start anchor), ".*", "(" (an
\* unclosed group) or one literal character.
PatAll == <<".*">>
PatPKG == <<"^", "P", "K", "G">>
Pat2 == <<"2">>
PatBad == <<"(", "P">>
Patterns == {PatAll, PatPKG, Pat2, PatBad}

\* Regex::new(&rule.pattern): Err on a pattern that does not parse.
RegexNew(pattern) == \A i \in 1..Len(pattern) : pattern[i] # "("

Drop(s, k) == SubSeq(s, k + 1, Len(s))

\* The compiled tokens `toks` match a prefix of `s`.
RECURSIVE MatchHere(_, _)
MatchHere(toks, s) ==
    IF toks = <<>> THEN TRUE
    ELSE IF Head(toks) = ".*"
         THEN \E k \in 0..Len(s) : MatchHere(Tail(toks), Drop(s, k))
    ELSE /\ s # <<>>
         /\ Head(s) = Head(toks)
         /\ MatchHere(Tail(toks), Tail(s))

\* re.is_match(&p): unanchored search unless the pattern starts with "^".
IsMatch(pattern, id) ==
    IF pattern # <<>> /\ Head(pattern) = "^"
    THEN MatchHere(Tail(pattern), IdChars(id))
    ELSE \E k \in 0..Len(IdChars(id)) : MatchHere(pattern, Drop(IdChars(id), k))

RegexRule(pat, op) == [type |-> "regex", pattern |-> pat, operation |-> op]
SingleRule(id, op) == [type |-> "single", id |-> id, operation |-> op]
Operations == {"include", "exclude"}
Rules ==
    {RegexRule(p, o) : p \in Patterns, o \in Operations}
        \cup {SingleRule(i, o) : i \in PackageIds, o \in Operations}

SeqsUpTo(S, n) == UNION {[1..k -> S] : k \in 0..n}

\* --------------------------------------------------------------- the fold

\* As RulePackageSet, matching every known identifier instead of the catalog's.
RulePackageSetAnyId(pattern, catalog) == {p \in PackageIds : IsMatch(pattern, p)}
\* lines 535-539: rule_package_set, the catalog identifiers the pattern matches.
RulePackageSet(pattern, catalog) == {p \in catalog : IsMatch(pattern, p)}

\* As ApplyRegex, matching the pattern against the operating set.
ApplyRegexOnOperating(rule, catalog, operating) ==
    IF rule.operation = "include"
    THEN operating \cup RulePackageSet(rule.pattern, operating)
    ELSE operating \ RulePackageSet(rule.pattern, operating)
\* lines 542-553: a regex rule's effect on operating_package_set.
ApplyRegex(rule, catalog, operating) ==
    IF rule.operation = "include"
    THEN operating \cup RulePackageSet(rule.pattern, catalog)
    ELSE operating \ RulePackageSet(rule.pattern, catalog)

\* As ApplySingle, with an exclude that removes nothing.
ApplySingleNoRemove(rule, operating) ==
    IF rule.operation = "include" THEN operating \cup {rule.id} ELSE operating
\* As ApplySingle, with an exclude that inserts an absent identifier.
ApplySingleToggle(rule, operating) ==
    IF rule.operation = "include" \/ rule.id \notin operating
    THEN operating \cup {rule.id}
    ELSE operating \ {rule.id}
\* lines 577-584: a single rule's effect on operating_package_set.
ApplySingle(rule, operating) ==
    IF rule.operation = "include"
    THEN operating \cup {rule.id}
    ELSE operating \ {rule.id}

\* As SingleFails, without the look-up.
SingleFailsNever(rule, catalog) == FALSE
\* line 557: the identifier is not in api_package_set.
SingleFails(rule, catalog) == rule.id \notin catalog
\* line 533 / lines 557-575: the rule makes run return Err.
RuleFails(rule, catalog) ==
    IF rule.type = "regex"
    THEN ~RegexNew(rule.pattern)
    ELSE SingleFails(rule, catalog)

RuleError(rule) ==
    IF rule.type = "regex" THEN "regex parse error" ELSE "Package ID not found!"

\* ------------------------------------------------------------------ paths

\* A path is a sequence of components; "/" is the root, ".." the parent.
IsAbsolute(p) == p # <<>> /\ p[1] = "/"

\* PathBuf::join: an absolute argument replaces the base.
Join(base, p) == IF IsAbsolute(p) THEN p ELSE base \o p

\* The file the operating system opens for a path: ".." steps up (not above
\* the root), no symbolic links.
RECURSIVE Resolve(_, _)
Resolve(acc, p) ==
    IF p = <<>> THEN acc
    ELSE IF Head(p) = ".."
         THEN Resolve(IF Len(acc) > 1 THEN SubSeq(acc, 1, Len(acc) - 1) ELSE acc, Tail(p))
    ELSE Resolve(Append(acc, Head(p)), Tail(p))

IsPrefix(a, b) == Len(a) <= Len(b) /\ SubSeq(b, 1, Len(a)) = a

\* ZipFile::enclosed_name (called at line 264): None for an absolute name or one
\* whose ".." steps leave the archive root at any point, else the name as it is.
RECURSIVE StaysInside(_, _)
StaysInside(depth, p) ==
    IF p = <<>> THEN TRUE
    ELSE IF Head(p) = "/" THEN FALSE
    ELSE IF Head(p) = ".." THEN depth > 0 /\ StaysInside(depth - 1, Tail(p))
    ELSE StaysInside(depth + 1, Tail(p))

EnclosedName(name) == IF StaysInside(0, name) THEN Some(name) ELSE None

\* lines 502-509: the canonical data directory.
DataDir == <<"/", "data">>

\* lines 248-250: the raw archive's path.
RawWriteDir(pkg, art) == Join(Join(DataDir, <<pkg>>), <<art \o ".zip">>)

\* As ExtractWriteDir, without the join of the artifact identifier.
ExtractWriteDirNoArtifact(pkg, art, outpath) == Join(Join(DataDir, <<pkg>>), outpath)
\* lines 271-276: the path of one extracted entry.
ExtractWriteDir(pkg, art, outpath) ==
    Join(Join(Join(DataDir, <<pkg>>), <<art>>), outpath)

\* <data_root>/<package_id>/<artifact_id>/
ArtifactDir(pkg, art) == DataDir \o <<pkg, art>>

\* ------------------------------------------------------- credentials, HTTP

\* lines 383-421: env::var on the configured variable.  "unconfigured": the
\* configuration names no variable; "unset" and "not_unicode": env::var is
\* Err; "empty" and "set": env::var is Ok.
EnvStates == {"unconfigured", "unset", "not_unicode", "empty", "set"}
\* As SecretFromEnv, taking an empty value for a missing one.
SecretFromEnvNonEmpty(env) == IF env = "set" THEN Some("envsecret") ELSE None
SecretFromEnv(env) ==
    CASE env = "set" -> Some("envsecret")
      [] env = "empty" -> Some("")
      [] OTHER -> None

\* What rpassword::prompt_password_stdout returns: a line, or an io error.
PromptOutcomes == {"typed", "", "io_error"}

\* lines 423-426: the principal.
Username(cfg) == IF cfg.credential = "oauth" THEN "client_id" ELSE "s_user"

\* lines 625-629: basic_auth, "Basic " followed by base64("user:pass").
\* base64::encode, kept as a wrapper around the text it encodes.
Base64(text) == [base64 |-> text]
BasicAuth(user, pass) ==
    [scheme |-> "Basic", encoded |-> Base64(user \o ":" \o pass)]
Bearer(token) == [scheme |-> "Bearer", token |-> token]

\* One request with what came back for it.
Request(method, kind, id, auth, resp) ==
    [method |-> method, kind |-> kind, id |-> id, auth |-> auth, resp |-> resp]

\* What a request can come back with: the transport failing (send().await?),
\* a non-success status, a success status with a body that does not parse, or
\* a success status with the expected body.
ListResponses == {"transport", "non_success", "unparsable", "success"}
StatusResponses == {"transport", "non_success", "success"}
\* The token endpoint's answers: the status is printed (line 477) and not
\* tested, so an answer is what its body holds.  "unparsable": a success
\* status without an access_token; "non_success": a non-success status
\* without one; "non_success_tokenA": a non-success status with one.
TokenResponses ==
    {"transport", "unparsable", "non_success", "non_success_tokenA", "tokenA", "tokenB"}

\* line 478: resp.json::<TokenAPIResponseRoot>(), the access_token of the body.
AccessToken(resp) ==
    CASE resp \in {"tokenA", "non_success_tokenA"} -> Some("A")
      [] resp = "tokenB" -> Some("B")
      [] OTHER -> None

\* As the checks below, looking at the transport alone and not at the status.
StatusIgnored(resp) == resp = "transport"
\* lines 476-478: the token exchange returns Err.
TokenFails(resp) == AccessToken(resp) = None
\* As AuthorizationHeader, with the basic header for both variants.
AuthorizationHeaderBasicOnly(cfg, pass, resp) == BasicAuth(Username(cfg), pass)
\* lines 464-483: the header of every later request, from the variant, the
\* secret and (OAuth) the token endpoint's answer.
AuthorizationHeader(cfg, pass, resp) ==
    IF cfg.credential = "oauth"
    THEN Bearer(AccessToken(resp).some)
    ELSE BasicAuth(Username(cfg), pass)
\* lines 489-497: the probe returns Err.
ProbeFails(resp) == resp # "success"
\* lines 305-333: get_all_packages returns Err.
CatalogFails(resp) == resp # "success"
\* lines 183-213: the artifact listing returns Err.
ArtifactListFails(resp) == resp # "success"
\* lines 224-241: the artifact download returns Err.
DownloadFails(resp) == resp # "success"

ResponseError(what, resp) ==
    IF resp = "non_success" THEN what ELSE resp \o " error"

\* ------------------------------------------------------------- the tenant

AllArtifacts == <<"Art1", "Art2", "Art3">>
ArtifactIds == {AllArtifacts[i] : i \in 1..Len(AllArtifacts)}
ArtifactLists ==
    {SubSeq(AllArtifacts, 1, n) : n \in {m \in 0..MaxArtifacts : m <= Len(AllArtifacts)}}

ListedArtifacts == UNION {{l[i] : i \in 1..Len(l)} : l \in ArtifactLists}

\* An archive entry: its name and whether the reader can open it (by_index).
Entry(name, readable) == [name |-> name, readable |-> readable]
CorruptArchive == [valid |-> FALSE, entries |-> <<>>]
Archive(es) == [valid |-> TRUE, entries |-> es]

\* Entry names: up to three components over "..", a directory and a file,
\* relative or absolute.
Components == {"..", "dir", "evil"}
RelativeNames ==
    {<<x>> : x \in Components} \cup {<<x, y>> : x, y \in Components}
        \cup {<<"..", "..", "evil">>, <<"dir", "..", "evil">>, <<"dir", "..", "..">>}
EntryNames == RelativeNames \cup {<<"/">> \o n : n \in {<<"evil">>, <<"dir", "evil">>}}

\* ------------------------------------------------------------------ state

TypeOK ==
    /\ opts \in [no_input : BOOLEAN]
    /\ config.credential \in {"s_user", "oauth"}
    /\ config.zip_extraction \in {"enabled", "disabled"}
    /\ environ \in EnvStates
    /\ tenant.catalog \subseteq PackageIds
    /\ result \in {"running", "ok", "err", "panic"}
    /\ rule_idx \in 0..Len(config.filter_rules)

\* The run's own variables after line 376, whatever the configuration.
InitRun ==
    /\ pc = "secret"
    /\ password = None
    /\ prompted = FALSE
    /\ authorization = None
    /\ requests = <<>>
    /\ api_package_set = {}
    /\ operating_package_set = {}
    /\ rule_idx = 0
    /\ pending = {}
    /\ package_id = ""
    /\ artifacts = <<>>
    /\ artifact = ""
    /\ entries = <<>>
    /\ files = {}
    /\ result = "running"
    /\ error = ""

\* run returns Err(msg): pc stays where the run stopped.
Fail(msg) ==
    /\ result' = "err"
    /\ error' = msg
    /\ pc' = pc

\* An unwrap() on None or Err: the process panics.
Panic ==
    /\ result' = "panic"
    /\ error' = "panic"
    /\ pc' = pc

Running == result = "running"

world == <<opts, config, environ, tenant>>

\* lines 380-456: the secret from the environment, else from the prompt.
ResolveSecret ==
    /\ Running
    /\ pc = "secret"
    /\ \E typed \in PromptOutcomes :
        LET fromEnv == SecretFromEnv(environ)
            ask == ~opts.no_input /\ fromEnv = None
            pw == IF ask THEN Some(typed) ELSE fromEnv
        IN  /\ prompted' = ask
            /\ IF ask /\ typed = "io_error"
               THEN Fail("prompt error") /\ password' = None
               ELSE IF pw = None
               THEN Fail("Could not use any password/secret") /\ password' = None
               ELSE /\ password' = pw
                    /\ pc' = "authorize"
                    /\ UNCHANGED <<result, error>>
    /\ UNCHANGED <<world, authorization, requests, api_package_set,
                   operating_package_set, rule_idx, pending, package_id,
                   artifacts, artifact, entries, files>>

\* lines 464-483: the Authorization header, through the token endpoint for OAuth.
Authorize ==
    /\ Running
    /\ pc = "authorize"
    /\ IF config.credential = "oauth"
       THEN \E resp \in TokenResponses :
            /\ requests' = Append(requests,
                   Request("POST", "token", "",
                           BasicAuth(Username(config), password.some), resp))
            /\ IF TokenFails(resp)
               THEN Fail(ResponseError("token decode error", resp))
                        /\ UNCHANGED authorization
               ELSE /\ authorization' =
                           AuthorizationHeader(config, password.some, resp)
                    /\ pc' = "probe"
                    /\ UNCHANGED <<result, error>>
       ELSE /\ authorization' = AuthorizationHeader(config, password.some, "")
            /\ pc' = "probe"
            /\ UNCHANGED <<requests, result, error>>
    /\ UNCHANGED <<world, password, prompted, api_package_set,
                   operating_package_set, rule_idx, pending, package_id,
                   artifacts, artifact, entries, files>>

\* lines 485-500: the connectivity probe.
Probe ==
    /\ Running
    /\ pc = "probe"
    /\ \E resp \in StatusResponses :
        /\ requests' = Append(requests, Request("GET", "probe", "", authorization, resp))
        /\ IF ProbeFails(resp)
           THEN Fail(ResponseError("API Check Failed!", resp))
           ELSE pc' = "catalog" /\ UNCHANGED <<result, error>>
    /\ UNCHANGED <<world, password, prompted, authorization, api_package_set,
                   operating_package_set, rule_idx, pending, package_id,
                   artifacts, artifact, entries, files>>

\* line 511 with get_all_packages (lines 291-337), then lines 513-527.  The
\* name map of lines 514-524 feeds only the hint printed at lines 560-568.
GetAllPackages ==
    /\ Running
    /\ pc = "catalog"
    /\ \E resp \in ListResponses :
        /\ requests' = Append(requests, Request("GET", "catalog", "", authorization, resp))
        /\ IF CatalogFails(resp)
           THEN Fail(ResponseError("API Package List  Failed!", resp))
                    /\ UNCHANGED api_package_set
           ELSE /\ api_package_set' = tenant.catalog
                /\ pc' = "resolve"
                /\ UNCHANGED <<result, error>>
    /\ UNCHANGED <<world, password, prompted, authorization,
                   operating_package_set, rule_idx, pending, package_id,
                   artifacts, artifact, entries, files>>

\* lines 529-587: one iteration of the loop over filter_rules.
ApplyRule ==
    /\ Running
    /\ pc = "resolve"
    /\ rule_idx < Len(config.filter_rules)
    /\ LET rule == config.filter_rules[rule_idx + 1]
       IN  IF RuleFails(rule, api_package_set)
           THEN Fail(RuleError(rule)) /\ UNCHANGED <<operating_package_set, rule_idx>>
           ELSE /\ operating_package_set' =
                       IF rule.type = "regex"
                       THEN ApplyRegex(rule, api_package_set, operating_package_set)
                       ELSE ApplySingle(rule, operating_package_set)
                /\ rule_idx' = rule_idx + 1
                /\ UNCHANGED <<pc, result, error>>
    /\ UNCHANGED <<world, password, prompted, authorization, requests,
                   api_package_set, pending, package_id, artifacts, artifact,
                   entries, files>>

\* lines 589-592: package_list, the operating set in the HashSet's order.
StartSync ==
    /\ Running
    /\ pc = "resolve"
    /\ rule_idx = Len(config.filter_rules)
    /\ pending' = operating_package_set
    /\ pc' = "sync"
    /\ UNCHANGED <<world, password, prompted, authorization, requests,
                   api_package_set, operating_package_set, rule_idx, package_id,
                   artifacts, artifact, entries, files, result, error>>

\* process_package has returned Ok, or was not called yet.
AtLoopHead ==
    \/ pc = "sync"
    \/ pc = "package" /\ artifacts = <<>> /\ entries = <<>>

\* lines 595-596 with lines 172-213: the next package and its artifact listing.
ProcessPackage ==
    /\ Running
    /\ AtLoopHead
    /\ pending # {}
    /\ \E p \in pending, resp \in ListResponses :
        /\ requests' = Append(requests, Request("GET", "artifact_list", p, authorization, resp))
        /\ pending' = pending \ {p}
        /\ package_id' = p
        /\ IF ArtifactListFails(resp)
           THEN Fail(ResponseError("API Package List Artifacts Failed!", resp))
                    /\ UNCHANGED artifacts
           ELSE /\ artifacts' = tenant.artifacts[p]
                /\ pc' = "package"
                /\ UNCHANGED <<result, error>>
    /\ UNCHANGED <<world, password, prompted, authorization, api_package_set,
                   operating_package_set, rule_idx, artifact, entries, files>>

\* lines 215-260: download one artifact; store it raw, or open it as an archive.
DownloadArtifact ==
    /\ Running
    /\ pc = "package"
    /\ entries = <<>>
    /\ artifacts # <<>>
    /\ \E resp \in StatusResponses :
        LET a == Head(artifacts)
            archive == tenant.archive[a]
        IN  /\ requests' = Append(requests,
                   Request("GET", "artifact_payload", a, authorization, resp))
            /\ artifact' = a
            /\ artifacts' = Tail(artifacts)
            /\ IF DownloadFails(resp)
               THEN Fail(ResponseError("API Artifact Download Failed!", resp))
                        /\ UNCHANGED <<entries, files>>
               ELSE IF config.zip_extraction = "disabled"
               THEN /\ files' = files \cup {Resolve(<<>>, RawWriteDir(package_id, a))}
                    /\ UNCHANGED <<entries, pc, result, error>>
               ELSE IF ~archive.valid
               THEN Panic /\ UNCHANGED <<entries, files>>
               ELSE /\ entries' = archive.entries
                    /\ UNCHANGED <<files, pc, result, error>>
    /\ UNCHANGED <<world, password, prompted, authorization, api_package_set,
                   operating_package_set, rule_idx, pending, package_id>>

\* lines 261-284: extract one entry of the archive.
ExtractEntry ==
    /\ Running
    /\ pc = "package"
    /\ entries # <<>>
    /\ LET e == Head(entries)
           outpath == EnclosedName(e.name)
       IN  IF ~e.readable \/ outpath = None
           THEN Panic /\ UNCHANGED <<entries, files>>
           ELSE /\ files' = files \cup
                       {Resolve(<<>>, ExtractWriteDir(package_id, artifact, outpath.some))}
                /\ entries' = Tail(entries)
                /\ UNCHANGED <<pc, result, error>>
    /\ UNCHANGED <<world, password, prompted, authorization, requests,
                   api_package_set, operating_package_set, rule_idx, pending,
                   package_id, artifacts, artifact>>

\* line 599: every package is processed; run returns Ok.
Finish ==
    /\ Running
    /\ AtLoopHead
    /\ pending = {}
    /\ result' = "ok"
    /\ pc' = "done"
    /\ UNCHANGED <<world, password, prompted, authorization, requests,
                   api_package_set, operating_package_set, rule_idx, pending,
                   package_id, artifacts, artifact, entries, files, error>>

Next ==
    \/ ResolveSecret
    \/ Authorize
    \/ Probe
    \/ GetAllPackages
    \/ ApplyRule
    \/ StartSync
    \/ ProcessPackage
    \/ DownloadArtifact
    \/ ExtractEntry
    \/ Finish

\* ------------------------------------------------------------ the scenarios

Config(cred, zip, rules) ==
    [credential |-> cred, zip_extraction |-> zip, filter_rules |-> rules]

TwoEntryArchive ==
    Archive(<<Entry(<<"a.txt">>, TRUE), Entry(<<"dir", "b.txt">>, TRUE)>>)

\* A tenant whose packages each hold the artifacts `arts`, every artifact
\* being the two-entry archive.
PlainTenant(catalog, arts) ==
    [catalog |-> catalog,
     artifacts |-> [p \in PackageIds |-> arts],
     archive |-> [a \in ArtifactIds |-> TwoEntryArchive]]

\* Every catalog and every rule list; the credential comes from the environment.
InitResolve ==
    /\ InitRun
    /\ opts = [no_input |-> TRUE]
    /\ environ = "set"
    /\ \E rules \in SeqsUpTo(Rules, MaxRules) :
        config = Config("s_user", "enabled", rules)
    /\ \E catalog \in SUBSET PackageIds :
        tenant = PlainTenant(catalog, <<"Art1">>)

\* Every archive of up to MaxEntries entries, and a corrupt one, in both
\* storage modes.
ArchiveEntries == {Entry(n, r) : n \in EntryNames, r \in BOOLEAN}
InitExtract ==
    /\ InitRun
    /\ opts = [no_input |-> TRUE]
    /\ environ = "set"
    /\ \E zip \in {"enabled", "disabled"} :
        config = Config("s_user", zip, <<SingleRule("PKG1", "include")>>)
    /\ \E archive \in {CorruptArchive}
                          \cup {Archive(es) : es \in SeqsUpTo(ArchiveEntries, MaxEntries)} :
        tenant = [catalog |-> {"PKG1"},
                  artifacts |-> [p \in PackageIds |-> <<"Art1">>],
                  archive |-> [a \in ArtifactIds |-> archive]]

\* Every credential variant, environment and input mode.
InitCredential ==
    /\ InitRun
    /\ opts \in [no_input : BOOLEAN]
    /\ environ \in EnvStates
    /\ \E cred \in {"s_user", "oauth"} :
        config = Config(cred, "enabled", <<SingleRule("PKG1", "include")>>)
    /\ tenant = PlainTenant({"PKG1"}, <<"Art1">>)

\* Two packages, every artifact listing and every archive state, both
\* credential variants and both storage modes.
Archives ==
    {CorruptArchive, TwoEntryArchive,
     Archive(<<Entry(<<"a.txt">>, TRUE), Entry(<<"dir", "b.txt">>, FALSE)>>)}
InitSync ==
    /\ InitRun
    /\ opts = [no_input |-> TRUE]
    /\ environ = "set"
    /\ \E cred \in {"s_user", "oauth"}, zip \in {"enabled", "disabled"} :
        config = Config(cred, zip, <<RegexRule(PatPKG, "include")>>)
    /\ \E arts \in [{"PKG1", "PKG2"} -> ArtifactLists],
          archive \in [ListedArtifacts -> Archives] :
        tenant = [catalog |-> {"PKG1", "PKG2", "Other"},
                  artifacts |-> [p \in PackageIds |->
                                    IF p \in DOMAIN arts THEN arts[p] ELSE <<>>],
                  archive |-> [a \in ArtifactIds |->
                                  IF a \in ListedArtifacts THEN archive[a]
                                  ELSE TwoEntryArchive]]

\* ------------------------------------------------------------ specifications

Spec == InitSync /\ [][Next]_vars
SpecResolve == InitResolve /\ [][Next]_vars
SpecExtract == InitExtract /\ [][Next]_vars
SpecCredential == InitCredential /\ [][Next]_vars

\* ------------------------------------------------- package selection (4.3)

\* The loop over filter_rules has finished without an error.
FoldDone == pc \in {"sync", "package", "done"}

\* The fold is about to evaluate this rule.
AtRule(rule) ==
    /\ Running
    /\ pc = "resolve"
    /\ rule_idx < Len(config.filter_rules)
    /\ rule = config.filter_rules[rule_idx + 1]

\* C1: rule order matters.  For a catalog identifier a, the rules
\* [single exclude a, regex include .*] leave a in the operating set, and the
\* rules [regex include .*, single exclude a] leave a out of it.
C1_RuleOrderMatters ==
    \A a \in api_package_set :
        /\ (FoldDone /\ config.filter_rules =
                <<SingleRule(a, "exclude"), RegexRule(PatAll, "include")>>)
              => a \in operating_package_set
        /\ (FoldDone /\ config.filter_rules =
                <<RegexRule(PatAll, "include"), SingleRule(a, "exclude")>>)
              => a \notin operating_package_set

\* Both orders are resolved for a catalog of all three identifiers: this is the
\* exclude-first one, with PKG2 in the operating set.
C1_Witness ==
    /\ FoldDone
    /\ api_package_set = PackageIds
    /\ config.filter_rules =
           <<SingleRule("PKG2", "exclude"), RegexRule(PatAll, "include")>>
    /\ "PKG2" \in operating_package_set

\* C2: a single rule whose identifier is not in the catalog makes the run
\* fail with "Package ID not found!" and leaves the operating set as it was,
\* at every position of the rule and whatever the operating set holds.
C2_UnknownSingleFails ==
    [][\A rule \in Rules :
          (AtRule(rule) /\ rule.type = "single" /\ rule.id \notin api_package_set)
            => /\ result' = "err"
               /\ error' = "Package ID not found!"
               /\ operating_package_set' = operating_package_set
               /\ rule.id \notin operating_package_set']_vars

\* The failing single rule is the second one, after a rule that filled the
\* operating set.
C2_Witness ==
    /\ result = "err"
    /\ error = "Package ID not found!"
    /\ rule_idx = 1
    /\ operating_package_set # {}
    /\ config.filter_rules[2].type = "single"
    /\ config.filter_rules[2].id \notin api_package_set

\* C3 as stated: a single exclude whose identifier is not in the operating
\* set is a no-op and the fold goes on, whether or not the catalog has it.
C3_ExcludeAbsentNoOp_AsStated ==
    [][\A rule \in Rules :
          (/\ AtRule(rule)
           /\ rule.type = "single"
           /\ rule.operation = "exclude"
           /\ rule.id \notin operating_package_set)
            => /\ result' = "running"
               /\ rule_idx' = rule_idx + 1
               /\ operating_package_set' = operating_package_set]_vars

\* C3 amended: a single exclude whose identifier is in the catalog and not in
\* the operating set is a no-op: the set is unchanged and the fold goes on to
\* the next rule.
C3_ExcludeAbsentNoOp ==
    [][\A rule \in Rules :
          (/\ AtRule(rule)
           /\ rule.type = "single"
           /\ rule.operation = "exclude"
           /\ rule.id \in api_package_set
           /\ rule.id \notin operating_package_set)
            => /\ result' = "running"
               /\ rule_idx' = rule_idx + 1
               /\ operating_package_set' = operating_package_set]_vars

\* The fold has passed an exclude of PKG2, which the operating set {PKG1}
\* did not hold, and the run went on to the sync.
C3_Witness ==
    /\ FoldDone
    /\ Running
    /\ "PKG2" \in api_package_set
    /\ config.filter_rules =
           <<SingleRule("PKG1", "include"), SingleRule("PKG2", "exclude")>>
    /\ operating_package_set = {"PKG1"}

\* C4: the operating set is a subset of the catalog's identifiers after
\* every rule, and every package handed to process_package is in the catalog.
C4_OperatingSubsetOfCatalog ==
    /\ operating_package_set \subseteq api_package_set
    /\ pending \subseteq api_package_set
    /\ api_package_set \subseteq tenant.catalog
    /\ \A i \in 1..Len(requests) :
          requests[i].kind = "artifact_list" => requests[i].id \in tenant.catalog

\* A package is being processed after a regex include over a catalog that
\* lacks one of the identifiers the pattern matches.
C4_Witness ==
    /\ pc = "package"
    /\ api_package_set = {"PKG1", "Other"}
    /\ config.filter_rules = <<RegexRule(PatPKG, "include"), RegexRule(PatAll, "include")>>
    /\ operating_package_set = {"PKG1", "Other"}
    /\ package_id = "Other"

\* The fold of 4.3, written from its definition: matched is computed on the
\* whole catalog.
SpecStep(rule, catalog, set) ==
    IF rule.type = "regex"
    THEN LET matched == {id \in catalog : IsMatch(rule.pattern, id)}
         IN  IF rule.operation = "include" THEN set \cup matched ELSE set \ matched
    ELSE IF rule.operation = "include" THEN set \cup {rule.id} ELSE set \ {rule.id}

RECURSIVE SpecFold(_, _, _)
SpecFold(rules, catalog, set) ==
    IF rules = <<>> THEN set
    ELSE SpecFold(Tail(rules), catalog, SpecStep(Head(rules), catalog, set))

AllRulesValid(rules, catalog) ==
    \A i \in 1..Len(rules) :
        IF rules[i].type = "regex" THEN RegexNew(rules[i].pattern)
        ELSE rules[i].id \in catalog

\* C10: with valid patterns and known identifiers, the operating set handed
\* to the sync is the left fold from the empty set, each regex rule matched
\* against the whole catalog; catalog {PKG1, PKG2, Other} with [regex ^PKG
\* include, single PKG2 exclude] gives {PKG1}; a regex include that comes last
\* leaves every catalog identifier it matches in the set.
C10_StrictLeftFold ==
    LET rules == config.filter_rules
        n == Len(rules)
    IN  /\ (FoldDone /\ AllRulesValid(rules, tenant.catalog))
              => operating_package_set = SpecFold(rules, tenant.catalog, {})
        /\ (pc = "resolve" /\ AllRulesValid(rules, tenant.catalog))
              => operating_package_set =
                     SpecFold(SubSeq(rules, 1, rule_idx), tenant.catalog, {})
        /\ (pc = "sync" /\ Running) => pending = operating_package_set
        /\ (/\ FoldDone
            /\ tenant.catalog = {"PKG1", "PKG2", "Other"}
            /\ rules = <<RegexRule(PatPKG, "include"), SingleRule("PKG2", "exclude")>>)
              => operating_package_set = {"PKG1"}
        /\ (/\ FoldDone
            /\ n > 0
            /\ rules[n].type = "regex"
            /\ rules[n].operation = "include")
              => \A id \in tenant.catalog :
                     IsMatch(rules[n].pattern, id) => id \in operating_package_set

\* The sync starts with {PKG1} for the end-to-end scenario.
C10_Witness ==
    /\ pc = "sync"
    /\ tenant.catalog = {"PKG1", "PKG2", "Other"}
    /\ config.filter_rules =
           <<RegexRule(PatPKG, "include"), SingleRule("PKG2", "exclude")>>
    /\ pending = {"PKG1"}


\* ------------------------------------------------------- extraction (4.4)

\* The archive entry the extraction is about to write.
AtEntry == Running /\ pc = "package" /\ entries # <<>>

\* The entry's name is absolute, or leaves the artifact's directory.
Escapes(name) ==
    \/ IsAbsolute(name)
    \/ ~IsPrefix(ArtifactDir(package_id, artifact),
                 Resolve(<<>>, ArtifactDir(package_id, artifact) \o name))

\* C5: in extract mode every file created for an archive entry lies under
\* <data_root>/<package_id>/<artifact_id>/, and an entry whose name is
\* absolute or climbs out of that directory creates no file: it is rejected.
C5_ExtractStaysInside ==
    [][AtEntry =>
          /\ \A f \in files' \ files :
                IsPrefix(ArtifactDir(package_id, artifact), f)
          /\ Escapes(Head(entries).name) => (files' = files /\ result' = "panic")]_vars

\* The archive's second entry is ../../evil: the first entry was written and
\* the run stopped at the second without another file.
C5_Witness ==
    /\ config.zip_extraction = "enabled"
    /\ result = "panic"
    /\ Len(entries) = 1
    /\ Head(entries).name = <<"..", "..", "evil">>
    /\ files = {<<"/", "data", "PKG1", "Art1", "dir", "evil">>}

\* ------------------------------------------------------ run order (4.1-4.4)

Kinds(ks) == {i \in 1..Len(requests) : requests[i].kind \in ks}
ArtifactKinds == {"artifact_list", "artifact_payload"}

\* C6: a catalog request that returns a non-success status or an unparsable
\* body ends the run with an error: it is the last request, no artifact
\* request was or is sent and no file is written.
C6_CatalogFailureAborts ==
    \A i \in Kinds({"catalog"}) :
        requests[i].resp \in {"non_success", "unparsable"}
          => /\ result = "err"
             /\ i = Len(requests)
             /\ Kinds(ArtifactKinds) = {}
             /\ files = {}
             /\ ~ENABLED Next

\* The catalog request came back unparsable after the token exchange and the
\* probe succeeded.
C6_Witness ==
    /\ Len(requests) = 3
    /\ requests[3].kind = "catalog"
    /\ requests[3].resp = "unparsable"
    /\ result = "err"

\* C7: the probe is the first request sent with the authorization header (only
\* the token exchange that builds the header comes before it), and a probe
\* that returns a non-success status ends the run with "API Check Failed!"
\* before the catalog request, any artifact request and any file.
C7_ProbeFirstAndFatal ==
    /\ \A i \in 1..Len(requests) :
          requests[i].kind # "token"
            => \E j \in 1..i :
                  /\ requests[j].kind = "probe"
                  /\ \A k \in 1..(j - 1) : requests[k].kind = "token"
    /\ (authorization # None /\ Running /\ Kinds({"probe"}) = {}) => pc = "probe"
    /\ \A i \in Kinds({"probe"}) :
          requests[i].resp = "non_success"
            => /\ result = "err"
               /\ error = "API Check Failed!"
               /\ i = Len(requests)
               /\ Kinds({"catalog"} \cup ArtifactKinds) = {}
               /\ files = {}
               /\ ~ENABLED Next

\* The probe failed right after a successful token exchange.
C7_Witness ==
    /\ Len(requests) = 2
    /\ requests[1].kind = "token"
    /\ requests[2].kind = "probe"
    /\ requests[2].resp = "non_success"
    /\ result = "err"

\* A failure of the artifact pipeline has happened: a listing or a download
\* came back without success, or the archive just downloaded is corrupt.
PipelineFailed ==
    \/ \E i \in Kinds(ArtifactKinds) : requests[i].resp # "success"
    \/ /\ config.zip_extraction = "enabled"
       /\ requests # <<>>
       /\ LET last == requests[Len(requests)]
          IN  /\ last.kind = "artifact_payload"
              /\ last.resp = "success"
              /\ ~tenant.archive[last.id].valid

\* C8: a failure in the artifact pipeline (listing or download without
\* success, unparsable listing, corrupt archive or entry) ends the run with an
\* error outcome in the same step, writes no file in that step, and is
\* followed by no further step: no request, no file, for this package or
\* another.
C8_PipelineFailureAborts ==
    [][/\ ~PipelineFailed
       /\ PipelineFailed' => (result' \in {"err", "panic"} /\ files' = files)
       /\ (AtEntry /\ ~Head(entries).readable)
            => (result' = "panic" /\ files' = files)
       /\ result' = "ok" => (pending' = {} /\ ~PipelineFailed')]_vars

\* The second artifact's download failed after the first one was stored,
\* with a package still in the queue.
C8_Witness ==
    /\ result = "err"
    /\ error = "API Artifact Download Failed!"
    /\ files # {}
    /\ pending # {}
    /\ Cardinality(Kinds({"artifact_payload"})) = 2

\* ----------------------------------------------------- the secret (4.1)

SecretResolved == pc # "secret" \/ ~Running

\* The three sources in order, for the environment states `fromEnv` counts
\* as supplying the secret.
SecretOrder(fromEnv) ==
    SecretResolved =>
        /\ environ \in fromEnv
             => /\ ~prompted
                /\ password = Some(IF environ = "set" THEN "envsecret" ELSE "")
                /\ pc # "secret"
        /\ (environ \notin fromEnv /\ ~opts.no_input)
             => /\ prompted
                /\ \/ password \in {Some("typed"), Some("")} /\ pc # "secret"
                   \/ result = "err" /\ error = "prompt error" /\ requests = <<>>
        /\ (environ \notin fromEnv /\ opts.no_input)
             => /\ ~prompted
                /\ result = "err"
                /\ error = "Could not use any password/secret"
                /\ pc = "secret"
                /\ requests = <<>>

\* C9 as stated: the environment variable supplies the secret if it is
\* present and non-empty; otherwise the prompt does when input is permitted;
\* otherwise the run fails before any request.  Both variants alike.
C9_SecretOrder_AsStated == SecretOrder({"set"})

\* C9 amended: the environment variable supplies the secret whenever it is
\* present (env::var is Ok), an empty value included; otherwise the prompt
\* does when input is permitted; otherwise the run fails before any request.
\* The prompt is never called when the variable supplied the secret.
C9_SecretOrder == SecretOrder({"set", "empty"})

\* An OAuth run with input forbidden and an empty variable has sent its token
\* request with the empty secret.
C9_Witness ==
    /\ config.credential = "oauth"
    /\ opts.no_input
    /\ environ = "empty"
    /\ ~prompted
    /\ requests # <<>>
    /\ requests[1].auth = BasicAuth("client_id", "")

\* -------------------------------------------------- the two protocols (4.1)

\* The header the rest of the run must carry, written from 4.1: Bearer and
\* the token the endpoint returned for OAuth2, Basic and base64 of
\* "principal:secret" for the basic variant.
ExpectedHeader ==
    IF config.credential = "oauth"
    THEN [scheme |-> "Bearer",
          token |-> IF requests[1].resp = "tokenB" THEN "B" ELSE "A"]
    ELSE [scheme |-> "Basic",
          encoded |-> [base64 |-> "s_user:" \o password.some]]

\* C11: the token POST is sent if and only if the variant is OAuth2, once,
\* after the secret is resolved and before the probe, with the client id and
\* secret as basic credentials; an exchange that cannot be reached or whose
\* body holds no access_token ends the run before the probe; and the probe,
\* the catalog request and every artifact request carry Bearer <token> for
\* OAuth2 and Basic <base64(principal:secret)> for the basic variant.
C11_ProtocolFixesHeader ==
    /\ \A i \in Kinds({"token"}) :
          /\ config.credential = "oauth"
          /\ i = 1
          /\ requests[i].method = "POST"
          /\ password # None
          /\ requests[i].auth =
                 [scheme |-> "Basic",
                  encoded |-> [base64 |-> "client_id:" \o password.some]]
          /\ requests[i].resp \in {"transport", "unparsable", "non_success"}
               => /\ result = "err"
                  /\ Len(requests) = 1
                  /\ authorization = None
                  /\ ~ENABLED Next
    /\ (config.credential = "oauth" /\ requests # <<>>) => requests[1].kind = "token"
    /\ (config.credential = "oauth" /\ pc \notin {"secret", "authorize"})
          => Kinds({"token"}) = {1}
    /\ \A i \in 1..Len(requests) :
          requests[i].kind # "token"
            => /\ requests[i].auth = ExpectedHeader
               /\ requests[i].auth = authorization

\* An OAuth2 run whose secret was typed at the prompt has downloaded an
\* artifact with the token the endpoint returned.
C11_Witness ==
    /\ config.credential = "oauth"
    /\ prompted
    /\ Len(requests) = 5
    /\ requests[1].resp = "tokenB"
    /\ requests[5].kind = "artifact_payload"
    /\ requests[5].auth = [scheme |-> "Bearer", token |-> "B"]

====
